---- MODULE Spec2Model ----
(***************************************************************************)
(* The in-memory store of ukane-philemon/gstore, in its two variants:      *)
(*   variant "A": src/unnamed/part_000 (store) with src/unnamed/part_002   *)
(*                (product, car, order) and src/main.go (caller);          *)
(*   variant "B": src/store.go (store with supported product types) with   *)
(*                src/unnamed/part_001 (product, car, carAccessory, order).*)
(* Products and orders are Go pointers: the model keeps a heap of product  *)
(* objects and a heap of order objects, and the store's two maps hold      *)
(* references into them, so that a caller passing the same object twice    *)
(* is the same object in the model too.                                    *)
(* crypto/rand is modelled as a source that never repeats an identity it   *)
(* has handed out and never hands out the all-zero identity (128 and 96    *)
(* random bits in the code).                                               *)
(* Spec runs the store's methods one call at a time; SpecC runs them from  *)
(* NProc goroutines, each method split at its Lock / Unlock (RLock /       *)
(* RUnlock) calls, sellProduct also between its validation and its         *)
(* mutation.  An unsynchronised read of s.products that overlaps a write   *)
(* (variant A, part_000 85) yields what either order of the two yields or  *)
(* the runtime's abort (fatal).                                            *)
(***************************************************************************)
EXTENDS Integers, Sequences, FiniteSets, TLC

\* ------------------------------------------------------------------ bounds
NObj == 2            \* well-formed product objects the callers hold
MaxBatch == 2        \* longest product / identity list passed to one call
MaxIDs == 3          \* product identities the random source hands out
MaxOrders == 1       \* order objects that get recorded
MaxOrderIDs == 2     \* order identities the random source hands out
NProc == 2           \* goroutines calling the store concurrently
MaxOrdersC == 2      \* order objects that get recorded by concurrent callers

\* --------------------------------------------------------------- constants
Nil == 0                     \* a nil Product / nil *order
NewOrder == -1               \* an order object no sale has recorded yet
zeroProductID == 0
zeroOrderID == 0

Objs == 1..NObj              \* the well-formed product objects
ProductIDs == 1..MaxIDs
OrderIDs == 1..MaxOrderIDs
Procs == 1..NProc
Types == {"Car", "Car Accessory"}

\* err == nil and the error values of the two stores
OK == "nil"
ErrNoProducts == "provide one or more products"
ErrInvalidProduct == "invalid product"
ErrNotValid == "is not valid or missing required fields"
ErrNotSupported == "is not supported"
ErrOrderFields == "order is missing required fields"
ErrNotExist == "does not exist"
ErrSellNotValid == "is not valid"
ErrNotEnough == "order amount paid is not enough"
ErrNoIDs == "provide one or more product IDs"
ErrDisable == "cannot disable non-existent product type"

VARIABLES
  variant,            \* "A" (part_000) or "B" (store.go)
  heap,               \* product objects: pointer -> fields
  productsInStock,    \* store.products / store.productsInStock: id -> pointer
  orders,             \* order objects that were recorded: pointer -> fields
  processedOrders,    \* store.processedOrders: order id -> order pointer
  supportedProducts,  \* store.supportedProducts (variant B): type -> bool
  issued,             \* product identities the random source has handed out
  ret,                \* what the last call returned (calls made one at a time)
  mtx,                \* store.mtx: the writer holding it and the readers
  call,               \* per goroutine: the call it is in and where it stands
  fatal               \* the Go runtime aborted the program

vars == <<variant, heap, productsInStock, orders, processedOrders,
          supportedProducts, issued, ret, mtx, call, fatal>>

\* what the calls made one at a time leave alone
cvars == <<mtx, call, fatal>>

\* ------------------------------------------------------------ helpers
Min(S) == CHOOSE x \in S : \A y \in S : x <= y

Range(f) == {f[x] : x \in DOMAIN f}

\* m[k] = v of a Go map
MapSet(m, k, v) == [x \in (DOMAIN m) \cup {k} |-> IF x = k THEN v ELSE m[x]]

\* delete(m, k) for every k in ks
MapDelete(m, ks) == [x \in (DOMAIN m) \ ks |-> m[x]]

EmptyMap == [x \in {} |-> 0]

SeqsUpTo(S, n) == UNION {[1..k -> S] : k \in 0..n}

\* ------------------------------------------------------------ products
\* The product literals of the callers (src/main.go 43-91, src/store.go
\* 283-340): odd objects are cars, even ones accessories.  A new object has
\* the zero identity; in variant B the caller stamps createdAt/lastUpdated.
NewProduct(o, v) ==
  IF o % 2 = 1
  THEN [kind |-> "car", id |-> zeroProductID, name |-> "Ford Ecosport",
        price |-> 5000000, productType |-> "Car", description |-> "easy to drive",
        images |-> 2, specifications |-> 2,
        createdAt |-> IF v = "B" THEN "past" ELSE "nil",
        lastUpdated |-> IF v = "B" THEN "past" ELSE "nil",
        make |-> "Ford", model |-> "1.5 Zetec 5dr", color |-> "yellow"]
  ELSE [kind |-> IF v = "B" THEN "carAccessory" ELSE "product",
        id |-> zeroProductID, name |-> "Toyota Shadow Logo Led Light",
        price |-> 14000, productType |-> "Car Accessory", description |-> "led lights",
        images |-> 1, specifications |-> 1,
        createdAt |-> IF v = "B" THEN "past" ELSE "nil",
        lastUpdated |-> IF v = "B" THEN "past" ELSE "nil",
        make |-> "", model |-> "", color |-> ""]

\* Besides the well-formed objects the callers hold one object per way of
\* building a product wrong: a car literal with one required field left out.
Defects(v) ==
  IF v = "A"
  THEN <<"price", "images", "specifications", "name", "make">>
  ELSE <<"price", "images", "specifications", "createdAt", "id">>

Defective(p, d) ==
  CASE d = "price" -> [p EXCEPT !.price = 0]
    [] d = "images" -> [p EXCEPT !.images = 0]
    [] d = "specifications" -> [p EXCEPT !.specifications = 0]
    [] d = "name" -> [p EXCEPT !.name = ""]
    [] d = "make" -> [p EXCEPT !.make = ""]
    [] d = "description" -> [p EXCEPT !.description = ""]
    [] d = "createdAt" -> [p EXCEPT !.createdAt = "nil"]
    [] d = "id" -> [p EXCEPT !.id = zeroProductID]

BadObjs == (NObj + 1)..(NObj + Len(Defects("A")))
AllObjs == Objs \cup BadObjs
Refs == {Nil} \cup AllObjs   \* what a caller can put in a product list

\* IsValid without the check of the image list.
IsValid_NoImages(p) ==
  /\ p.name # "" /\ p.productType # "" /\ p.description # ""
  /\ p.price > 0 /\ p.specifications # 0
  /\ (p.kind = "car" => p.make # "" /\ p.model # "" /\ p.color # "")

\* product.IsValid and car.IsValid of variant A
IsValid(p) ==
  /\ p.name # "" /\ p.productType # "" /\ p.description # ""
  /\ p.price > 0 /\ p.images # 0 /\ p.specifications # 0
  /\ (p.kind = "car" => p.make # "" /\ p.model # "" /\ p.color # "")

\* product.Validate, car.Validate and carAccessory.Validate of variant B
Validate(p) ==
  /\ p.id # zeroProductID /\ p.price > 0 /\ p.name # "" /\ p.images # 0
  /\ p.createdAt = "past" /\ p.lastUpdated = "past"
  /\ p.productType # "" /\ p.specifications # 0
  /\ (p.kind = "car" => p.make # "" /\ p.model # "" /\ p.color # "")

\* ---------------------------------------------------------------- Init
\* a goroutine that is in no call
Idle == [pc |-> "idle", op |-> "", arg |-> <<>>, i |-> 0, total |-> 0,
         res |-> [err |-> OK, val |-> <<>>]]

newStore(v) ==
  /\ variant = v
  /\ productsInStock = EmptyMap
  /\ processedOrders = EmptyMap
  /\ supportedProducts =
       IF v = "B" THEN [t \in {"Car"} |-> TRUE] ELSE EmptyMap

\* The objects the caller has built when the store is created.  In variant
\* B the caller runs generateProductID on each product it builds (store.go
\* 302, 323, 340), so every object carries its own identity from the start;
\* in variant A identities are given out by addProducts.
Init ==
  /\ \E v \in {"A", "B"} :
       /\ newStore(v)
       /\ heap = [o \in AllObjs |->
                    LET p == IF o \in Objs THEN NewProduct(o, v)
                             ELSE NewProduct(1, v)
                        q == IF v = "B" THEN [p EXCEPT !.id = o] ELSE p
                    IN IF o \in Objs THEN q
                       ELSE Defective(q, Defects(v)[o - NObj])]
       /\ issued = IF v = "B" THEN AllObjs ELSE {}
  /\ orders = <<>>
  /\ ret = [op |-> "newStore", err |-> OK, val |-> <<>>]
  /\ mtx = [w |-> 0, r |-> {}]
  /\ call = [p \in Procs |-> Idle]
  /\ fatal = FALSE

\* ------------------------------------------------------------- inputs
\* Amounts a buyer pays: nothing, and the sums of the catalogue prices.
AmountsPaid == {0, 5000000, 5014000}

\* Product lists for add / update, and for the orders of sellProduct.  A
\* sale never looks at the fields of a product that is not in stock, and a
\* defective object never gets into stock, so one defective object stands
\* for all of them in an order.
ProductLists == SeqsUpTo(Refs, MaxBatch)

OrderProductLists == SeqsUpTo({Nil} \cup Objs \cup {NObj + 1}, MaxBatch)

IDLists == SeqsUpTo(0..MaxIDs, MaxBatch)

\* rand.Read: the identities drawn by n successive calls.  Identities are
\* only ever compared for equality, so which unused identities are drawn
\* makes no difference: the model draws them in increasing order.
FreshSeqs(n, used) ==
  {s \in [1..n -> ProductIDs \ used] :
     \A i \in 1..n : s[i] = Cardinality(used) + i}

FreshOrderIDs(used) == {id \in OrderIDs \ used : id = Cardinality(used) + 1}

NilOrder ==
  [ptr |-> Nil, id |-> zeroOrderID, name |-> "", amountPaid |-> 0,
   address |-> "", products |-> <<>>]

\* The orders a caller can pass to sellProduct: nil, an order object built
\* for this call (in variant B the caller has or has not run generateOrderID
\* on it), or an order object that was recorded by an earlier sale.  An
\* order built for the call has at most one of its own fields left out.
MissingFields(ord) ==
  Cardinality({f \in {"name", "address", "amountPaid"} :
                 \/ f = "name" /\ ord.name = ""
                 \/ f = "address" /\ ord.address = ""
                 \/ f = "amountPaid" /\ ord.amountPaid <= 0})

OrderInputs ==
  {NilOrder}
    \cup {orders[k] : k \in 1..Len(orders)}
    \cup {ord \in [ptr : {NewOrder},
                   id : IF variant = "B"
                        THEN {zeroOrderID} \cup FreshOrderIDs(DOMAIN processedOrders)
                        ELSE {zeroOrderID},
                   name : {"", "Philemon"},
                   amountPaid : AmountsPaid,
                   address : {"", "Banana Island, Lagos"},
                   products : OrderProductLists] : MissingFields(ord) <= 1}

\* The identities of the products an order or batch lists (p.ID() of each).
IDsOf(products, h) == {h[products[i]].id : i \in {j \in 1..Len(products) : products[j] # Nil}}

Return(op, err, val) == [op |-> op, err |-> err, val |-> val]

\* What a call leaves behind: its return values and the store after it.
Outcome(err, val, h, st, os, po) ==
  [err |-> err, val |-> val, heap |-> h, stock |-> st, orders |-> os,
   processedOrders |-> po]

\* ----------------------------------------------- variant A: addProducts
\* part_000 36-49: the checks made before anything is inserted
addProductsCheck(products, h) ==
  IF Len(products) = 0 THEN ErrNoProducts
  ELSE LET bad == {i \in 1..Len(products) :
                     products[i] = Nil \/ ~IsValid(h[products[i]])}
       IN IF bad = {} THEN OK
          ELSE IF products[Min(bad)] = Nil THEN ErrInvalidProduct ELSE ErrNotValid

\* part_000 233-239: rand.Read into product.id
generateProductID(h, o, id) == [h EXCEPT ![o].id = id]

\* part_000 53-68: one pass of the insertion loop per product; ids[i] is what
\* the random source yields in pass i.
RECURSIVE addLoop(_, _, _, _, _, _)
addLoop(i, products, ids, h, st, out) ==
  IF i > Len(products) THEN [heap |-> h, stock |-> st, productIDs |-> out]
  ELSE LET o == products[i]
           h1 == generateProductID(h, o, ids[i])
           h2 == [h1 EXCEPT ![o].createdAt = "past", ![o].lastUpdated = "past"]
           productID == h2[o].id
       IN addLoop(i + 1, products, ids, h2, MapSet(st, productID, o),
                  Append(out, productID))

\* part_000 32-71: addProducts(products...) when the random source yields ids
addProductsResult(products, ids, h, st, os, po) ==
  LET e == addProductsCheck(products, h) IN
    IF e # OK THEN Outcome(e, <<>>, h, st, os, po)
    ELSE LET r == addLoop(1, products, ids, h, st, <<>>)
         IN Outcome(OK, r.productIDs, r.heap, r.stock, os, po)

\* The identities addProducts draws: none when it returns early.
DrawProductIDs(products, h, used) ==
  IF addProductsCheck(products, h) # OK THEN {<<>>}
  ELSE FreshSeqs(Len(products), used)

addProducts(products) ==
  /\ variant = "A"
  /\ \E ids \in DrawProductIDs(products, heap, issued) :
       \E r \in {addProductsResult(products, ids, heap, productsInStock,
                                  orders, processedOrders)} :
         /\ heap' = r.heap
         /\ productsInStock' = r.stock
         /\ issued' = IF r.err = OK THEN issued \cup Range(ids) ELSE issued
         /\ ret' = Return("addProducts", r.err, r.val)
  /\ UNCHANGED <<variant, orders, processedOrders, supportedProducts>>
  /\ UNCHANGED cvars

\* ----------------------------------------------- variant A: sellProduct
\* part_000 75: the order's own fields
orderMissingFields(ord) ==
  \/ ord.ptr = Nil \/ ord.address = "" \/ ord.amountPaid <= 0
  \/ ord.name = "" \/ Len(ord.products) = 0

\* sellCheckOneA without the look-up in the stock.
sellCheckOneA_NoLookup(o, h, st) ==
  IF o = Nil THEN ErrInvalidProduct
  ELSE IF ~IsValid(h[o]) THEN ErrSellNotValid
  ELSE OK

\* part_000 81-91: the checks of one pass of the validation loop
sellCheckOneA(o, h, st) ==
  IF o = Nil THEN ErrInvalidProduct
  ELSE IF h[o].id \notin DOMAIN st THEN ErrNotExist
  ELSE IF ~IsValid(h[o]) THEN ErrSellNotValid
  ELSE OK

\* part_000 79, 93: totalProductCost += p.Price()
RECURSIVE totalProductCost(_, _)
totalProductCost(products, h) ==
  IF products = <<>> THEN 0
  ELSE h[Head(products)].price + totalProductCost(Tail(products), h)

\* paidEnough accepting every payment.
paidEnough_Always(ord, h) == TRUE

\* paidEnough refusing a payment of exactly the total.
paidEnough_Strict(ord, h) == ord.amountPaid > totalProductCost(ord.products, h)

\* part_000 97: has the buyer paid enough
paidEnough(ord, h) == ~(ord.amountPaid < totalProductCost(ord.products, h))

\* part_000 75-99: everything sellProduct checks before it takes the lock
sellCheckA(ord, h, st) ==
  IF orderMissingFields(ord) THEN ErrOrderFields
  ELSE LET bad == {i \in 1..Len(ord.products) :
                     sellCheckOneA(ord.products[i], h, st) # OK}
       IN IF bad # {} THEN sellCheckOneA(ord.products[Min(bad)], h, st)
          ELSE IF ~paidEnough(ord, h) THEN ErrNotEnough
          ELSE OK

\* part_000 102-104 and store.go 88-90: the products of the order leave the stock
removeSold(ord, h, st) == MapDelete(st, IDsOf(ord.products, h))

\* The order object after the call wrote `id` into it (a new object joins the
\* recorded ones).
StoreOrder(os, ord, id) ==
  IF ord.ptr = NewOrder THEN Append(os, [ord EXCEPT !.id = id, !.ptr = Len(os) + 1])
  ELSE [os EXCEPT ![ord.ptr].id = id]

\* The pointer under which the order object is known once it is recorded.
PtrOf(os, ord) == IF ord.ptr = NewOrder THEN Len(os) + 1 ELSE ord.ptr

\* part_000 101-111: the locked part of sellProduct; oid is what the random
\* source yields for generateOrderID (part_000 242-247)
sellApplyA(ord, oid, h, st, os, po) ==
  Outcome(OK, <<oid>>, h, removeSold(ord, h, st), StoreOrder(os, ord, oid),
          MapSet(po, oid, PtrOf(os, ord)))

\* part_000 74-112, run without interleaving
sellProductResultA(ord, oid, h, st, os, po) ==
  LET e == sellCheckA(ord, h, st) IN
    IF e # OK THEN Outcome(e, <<zeroOrderID>>, h, st, os, po)
    ELSE sellApplyA(ord, oid, h, st, os, po)

\* The model stops recording once `max` order objects are recorded.
CanRecord(ord, err, os, max) == (err = OK /\ ord.ptr = NewOrder) => Len(os) < max

\* The identity sellProduct draws: none when it returns early.
DrawOrderID(ord, h, st, po) ==
  IF sellCheckA(ord, h, st) # OK THEN {zeroOrderID} ELSE FreshOrderIDs(DOMAIN po)

sellProductA(ord) ==
  /\ variant = "A"
  /\ \E oid \in DrawOrderID(ord, heap, productsInStock, processedOrders) :
       \E r \in {sellProductResultA(ord, oid, heap, productsInStock,
                                   orders, processedOrders)} :
         /\ CanRecord(ord, r.err, orders, MaxOrders)
         /\ productsInStock' = r.stock
         /\ orders' = r.orders
         /\ processedOrders' = r.processedOrders
         /\ ret' = Return("sellProduct", r.err, r.val)
  /\ UNCHANGED <<variant, heap, supportedProducts, issued>>
  /\ UNCHANGED cvars

\* ---------------------------------------------------- deleteProducts
\* The deletion loop counting every listed identity, present or not.
RECURSIVE deleteLoop_CountAll(_, _, _, _)
deleteLoop_CountAll(i, productIDs, st, deleted) ==
  IF i > Len(productIDs) THEN [stock |-> st, deleted |-> deleted]
  ELSE deleteLoop_CountAll(i + 1, productIDs, MapDelete(st, {productIDs[i]}), deleted + 1)

\* part_000 208-213 and store.go 198-203: the deletion loop
RECURSIVE deleteLoop(_, _, _, _)
deleteLoop(i, productIDs, st, deleted) ==
  IF i > Len(productIDs) THEN [stock |-> st, deleted |-> deleted]
  ELSE IF productIDs[i] \in DOMAIN st
       THEN deleteLoop(i + 1, productIDs, MapDelete(st, {productIDs[i]}), deleted + 1)
       ELSE deleteLoop(i + 1, productIDs, st, deleted)

\* part_000 200-216
deleteProductsResultA(productIDs, h, st, os, po) ==
  IF Len(productIDs) = 0 THEN Outcome(ErrNoIDs, <<0>>, h, st, os, po)
  ELSE LET r == deleteLoop(1, productIDs, st, 0)
       IN Outcome(OK, <<r.deleted>>, h, r.stock, os, po)

deleteProductsA(productIDs) ==
  /\ variant = "A"
  /\ \E r \in {deleteProductsResultA(productIDs, heap, productsInStock,
                                    orders, processedOrders)} :
       /\ productsInStock' = r.stock
       /\ ret' = Return("deleteProducts", r.err, r.val)
  /\ UNCHANGED <<variant, heap, orders, processedOrders, supportedProducts, issued>>
  /\ UNCHANGED cvars

\* --------------------------------------------- variant B: updateProduct
\* The look-up of the type without the test of its status.
notSupported_RegisteredOnly(sp, t) == t \notin DOMAIN sp

\* store.go 49: supported, ok := s.supportedProducts[t]; !ok || !supported
notSupported(sp, t) == t \notin DOMAIN sp \/ ~sp[t]

\* store.go 46-54: the checks of one pass of the validation loop
updateCheckOne(o, h, sp) ==
  IF o = Nil THEN ErrInvalidProduct
  ELSE IF notSupported(sp, h[o].productType) THEN ErrNotSupported
  ELSE IF ~Validate(h[o]) THEN ErrNotValid
  ELSE OK

\* store.go 40-55
updateProductCheck(products, h, sp) ==
  IF Len(products) = 0 THEN ErrNoProducts
  ELSE LET bad == {i \in 1..Len(products) : updateCheckOne(products[i], h, sp) # OK}
       IN IF bad = {} THEN OK ELSE updateCheckOne(products[Min(bad)], h, sp)

\* store.go 57-59
RECURSIVE updateLoop(_, _, _, _)
updateLoop(i, products, h, st) ==
  IF i > Len(products) THEN st
  ELSE updateLoop(i + 1, products, h, MapSet(st, h[products[i]].id, products[i]))

\* store.go 36-62
updateProductResult(products, h, st, os, po, sp) ==
  LET e == updateProductCheck(products, h, sp) IN
    IF e # OK THEN Outcome(e, <<>>, h, st, os, po)
    ELSE Outcome(OK, <<>>, h, updateLoop(1, products, h, st), os, po)

updateProduct(products) ==
  /\ variant = "B"
  /\ \E r \in {updateProductResult(products, heap, productsInStock, orders,
                                  processedOrders, supportedProducts)} :
       /\ productsInStock' = r.stock
       /\ ret' = Return("updateProduct", r.err, r.val)
  /\ UNCHANGED <<variant, heap, orders, processedOrders, supportedProducts, issued>>
  /\ UNCHANGED cvars

\* ----------------------------------------------- variant B: sellProduct
\* orderMissingFieldsB without the test of the buyer's name.
orderMissingFieldsB_NoName(ord) ==
  \/ ord.ptr = Nil \/ ord.id = zeroOrderID \/ ord.address = ""
  \/ ord.amountPaid <= 0 \/ Len(ord.products) = 0

\* store.go 69
orderMissingFieldsB(ord) ==
  \/ ord.ptr = Nil \/ ord.id = zeroOrderID \/ ord.address = ""
  \/ ord.amountPaid <= 0 \/ ord.name = "" \/ Len(ord.products) = 0

\* store.go 74-85
sellCheckOneB(o, h, st, sp) ==
  IF o = Nil THEN ErrInvalidProduct
  ELSE IF notSupported(sp, h[o].productType) THEN ErrNotSupported
  ELSE IF h[o].id \notin DOMAIN st THEN ErrNotExist
  ELSE IF ~Validate(h[o]) THEN ErrSellNotValid
  ELSE OK

\* store.go 69-86
sellCheckB(ord, h, st, sp) ==
  IF orderMissingFieldsB(ord) THEN ErrOrderFields
  ELSE LET bad == {i \in 1..Len(ord.products) :
                     sellCheckOneB(ord.products[i], h, st, sp) # OK}
       IN IF bad # {} THEN sellCheckOneB(ord.products[Min(bad)], h, st, sp)
          ELSE OK

\* store.go 88-93
sellApplyB(ord, h, st, os, po) ==
  Outcome(OK, <<>>, h, removeSold(ord, h, st), StoreOrder(os, ord, ord.id),
          MapSet(po, ord.id, PtrOf(os, ord)))

\* store.go 65-94
sellProductResultB(ord, h, st, os, po, sp) ==
  LET e == sellCheckB(ord, h, st, sp) IN
    IF e # OK THEN Outcome(e, <<>>, h, st, os, po)
    ELSE sellApplyB(ord, h, st, os, po)

sellProductB(ord) ==
  /\ variant = "B"
  /\ \E r \in {sellProductResultB(ord, heap, productsInStock, orders,
                                 processedOrders, supportedProducts)} :
       /\ CanRecord(ord, r.err, orders, MaxOrders)
       /\ productsInStock' = r.stock
       /\ orders' = r.orders
       /\ processedOrders' = r.processedOrders
       /\ ret' = Return("sellProduct", r.err, r.val)
  /\ UNCHANGED <<variant, heap, supportedProducts, issued>>
  /\ UNCHANGED cvars

\* store.go 191-207
deleteProductsResultB(productIDs, h, st, os, po) ==
  IF Len(productIDs) = 0 THEN Outcome(ErrNoIDs, <<0>>, h, st, os, po)
  ELSE LET r == deleteLoop(1, productIDs, st, 0)
       IN Outcome(OK, <<r.deleted>>, h, r.stock, os, po)

deleteProductsB(productIDs) ==
  /\ variant = "B"
  /\ \E r \in {deleteProductsResultB(productIDs, heap, productsInStock,
                                    orders, processedOrders)} :
       /\ productsInStock' = r.stock
       /\ ret' = Return("deleteProducts", r.err, r.val)
  /\ UNCHANGED <<variant, heap, orders, processedOrders, supportedProducts, issued>>
  /\ UNCHANGED cvars

\* updateProductsSupported without the test for a tag that is not registered.
updateProductsSupported_NoCheck(productType, enable) ==
  /\ variant = "B"
  /\ supportedProducts' = MapSet(supportedProducts, productType, enable)
  /\ ret' = Return("updateProductsSupported", OK, <<>>)
  /\ UNCHANGED <<variant, heap, productsInStock, orders, processedOrders, issued>>
  /\ UNCHANGED cvars

\* store.go 229-239
updateProductsSupported(productType, enable) ==
  /\ variant = "B"
  /\ IF ~enable /\ productType \notin DOMAIN supportedProducts
     THEN /\ ret' = Return("updateProductsSupported", ErrDisable, <<>>)
          /\ UNCHANGED supportedProducts
     ELSE /\ supportedProducts' = MapSet(supportedProducts, productType, enable)
          /\ ret' = Return("updateProductsSupported", OK, <<>>)
  /\ UNCHANGED <<variant, heap, productsInStock, orders, processedOrders, issued>>
  /\ UNCHANGED cvars

\* ------------------------------------------------ calls made one at a time
AddProducts == \E products \in ProductLists : addProducts(products)
SellProductA == \E ord \in OrderInputs : sellProductA(ord)
DeleteProductsA == \E productIDs \in IDLists : deleteProductsA(productIDs)
UpdateProduct == \E products \in ProductLists : updateProduct(products)
SellProductB == \E ord \in OrderInputs : sellProductB(ord)
DeleteProductsB == \E productIDs \in IDLists : deleteProductsB(productIDs)
UpdateProductsSupported ==
  \E t \in Types, enable \in BOOLEAN : updateProductsSupported(t, enable)

Next ==
  \/ AddProducts
  \/ SellProductA
  \/ DeleteProductsA
  \/ UpdateProduct
  \/ SellProductB
  \/ DeleteProductsB
  \/ UpdateProductsSupported

Spec == Init /\ [][Next]_vars

\* ------------------------------------------------------------ queries
RECURSIVE SumF(_)
SumF(f) ==
  IF DOMAIN f = {} THEN 0
  ELSE LET x == CHOOSE y \in DOMAIN f : TRUE
       IN f[x] + SumF([y \in DOMAIN f \ {x} |-> f[y]])

\* part_000 115-123 and store.go 97-105
productResult(ID, st) == IF ID \in DOMAIN st THEN st[ID] ELSE Nil

\* part_000 128-150 and store.go 111-137: the matching entries of the stock
\* (a Go slice in map order: one element per key) and their total price
availableProductsResult(v, t, h, st, sp) ==
  IF v = "B" /\ t # "" /\ notSupported(sp, t)
  THEN [err |-> ErrNotSupported, val |-> <<EmptyMap, 0>>]
  ELSE LET ks == {k \in DOMAIN st : t = "" \/ h[st[k]].productType = t}
       IN [err |-> OK,
           val |-> <<[k \in ks |-> st[k]], SumF([k \in ks |-> h[st[k]].price])>>]

\* soldProducts without the comparison of the product's type with the tag.
soldProductsResult_NoFilter(v, t, h, os, po, sp) ==
  LET es == {e \in (DOMAIN po) \X (1..MaxBatch) : e[2] <= Len(os[po[e[1]]].products)}
      at(e) == os[po[e[1]]].products[e[2]]
  IN [err |-> OK,
      val |-> <<[e \in es |-> at(e)], SumF([e \in es |-> h[at(e)].price])>>]

\* part_000 155-182 and store.go 142-173: one element per product listed by
\* an entry of the processed orders
soldProductsResult(v, t, h, os, po, sp) ==
  IF v = "B" /\ t # "" /\ t \notin DOMAIN sp
  THEN [err |-> ErrNotSupported, val |-> <<EmptyMap, 0>>]
  ELSE LET es == {e \in (DOMAIN po) \X (1..MaxBatch) :
                    /\ e[2] <= Len(os[po[e[1]]].products)
                    /\ \/ t = ""
                       \/ h[os[po[e[1]]].products[e[2]]].productType = t}
           at(e) == os[po[e[1]]].products[e[2]]
       IN [err |-> OK,
           val |-> <<[e \in es |-> at(e)], SumF([e \in es |-> h[at(e)].price])>>]

\* part_000 185-195 and store.go 176-186
ordersResult(os, po) ==
  [err |-> OK, val |-> <<po, SumF([k \in DOMAIN po |-> os[po[k]].amountPaid])>>]

\* part_000 220-231 and store.go 211-226
inStockResult(v, t, h, st, sp) ==
  IF v = "B" /\ notSupported(sp, t) THEN FALSE
  ELSE \E k \in DOMAIN st : h[st[k]].productType = t

\* What the query q[1], called with q[2], reads under the shared lock.
queryResult(q, v, h, st, os, po, sp) ==
  IF q[1] = "product" THEN [err |-> OK, val |-> <<productResult(q[2], st)>>]
  ELSE IF q[1] = "availableProducts" THEN availableProductsResult(v, q[2], h, st, sp)
  ELSE IF q[1] = "soldProducts" THEN soldProductsResult(v, q[2], h, os, po, sp)
  ELSE IF q[1] = "orders" THEN ordersResult(os, po)
  ELSE [err |-> OK, val |-> <<inStockResult(v, q[2], h, st, sp)>>]

\* ------------------------------------------------ concurrent callers
\* What the goroutines pass in.  They work with one product: they add it,
\* sell it (alone, or twice in one order, which the payment does not cover)
\* and delete it under the identities it has had.
CObjs == {1}

CProductLists == {<<>>} \cup {<<o>> : o \in CObjs}

CIDLists == {<<>>} \cup {<<id>> : id \in 1..NObj}

QueryInputs ==
  {<<"product", 1>>, <<"availableProducts", "">>, <<"soldProducts", "">>,
   <<"orders", "">>, <<"inStock", "Car">>}

\* The goroutines that are inside a call.
InCall(c) == c.pc \notin {"idle", "done"}

\* Order identities of orders that are recorded or on their way.
OrderIDsInUse ==
  DOMAIN processedOrders
    \cup {call[q].arg.id : q \in {x \in Procs : InCall(call[x]) /\ call[x].op = "sellProduct"}}

\* Order objects the callers build: nil, or a complete order listing the
\* product once or twice, paid with the price of both catalogue products.  In variant B
\* the caller has run generateOrderID on it (store.go 260-265).
COrderInputs ==
  {NilOrder}
    \cup {[ptr |-> NewOrder, id |-> id, name |-> "Philemon",
           amountPaid |-> 5014000, address |-> "Banana Island, Lagos",
           products |-> ps] :
            ps \in SeqsUpTo(CObjs, MaxBatch) \ {<<>>},
            id \in IF variant = "A" THEN {zeroOrderID}
                   ELSE {x \in OrderIDs \ OrderIDsInUse :
                           \A y \in OrderIDs \ OrderIDsInUse : x <= y}}

\* Sales that have not yet recorded their order, adds that have not yet
\* drawn their identities: the model starts no call it has no room for.
PendingOrders ==
  Cardinality({q \in Procs : call[q].op = "sellProduct" /\ InCall(call[q])
                               /\ call[q].pc # "unlock"})

PendingIDs ==
  SumF([q \in {x \in Procs : call[x].op = "addProducts" /\ call[x].pc \in {"lock", "body"}}
          |-> Len(call[q].arg)])

Start(op, arg, pc) == [Idle EXCEPT !.pc = pc, !.op = op, !.arg = arg]

Finish(c, err, val, pc) ==
  [c EXCEPT !.pc = pc, !.i = 0, !.total = 0, !.res = [err |-> err, val |-> val]]

CanCall(p) == ~fatal /\ ~InCall(call[p])

At(p, pc, ops) == ~fatal /\ call[p].pc = pc /\ call[p].op \in ops

\* sellProduct with the validation moved in front of the lock in both variants.
SellOrder_ValidateFirst(v) ==
  <<IF v = "A" THEN "validate" ELSE "check", "lock", "apply", "unlock">>

\* sellProduct with the lock taken first in both variants.
SellOrder_LockFirst(v) ==
  <<"lock", IF v = "A" THEN "validate" ELSE "check", "apply", "unlock">>

\* The order of the parts of sellProduct: variant A validates (part_000
\* 80-99), locks (101), mutates (102-108), unlocks (109); variant B locks
\* (store.go 66), validates (69-86), mutates (88-92), unlocks (deferred, 67).
SellOrder(v) ==
  IF v = "A" THEN <<"validate", "lock", "apply", "unlock">>
  ELSE <<"lock", "check", "apply", "unlock">>

\* The part of sellProduct that follows the part pc.
AfterPC(v, pc) ==
  LET so == SellOrder(v)
  IN so[1 + CHOOSE i \in 1..3 : so[i] = pc]

store == <<heap, productsInStock, orders, processedOrders, supportedProducts, issued>>

\* s.mtx.Lock(): waits until nobody holds the lock (part_000 33, 101, 205;
\* store.go 37, 66, 196, 230)
Lock(p) ==
  /\ At(p, "lock", {"addProducts", "updateProduct", "sellProduct", "deleteProducts",
                    "updateProductsSupported"})
  /\ mtx.w = 0 /\ mtx.r = {}
  /\ mtx' = [mtx EXCEPT !.w = p]
  /\ call' = [call EXCEPT ![p].pc =
                IF call[p].op # "sellProduct" THEN "body"
                ELSE AfterPC(variant, "lock")]
  /\ UNCHANGED <<variant, store, ret, fatal>>

\* The call has returned: the model remembers what was called and the error,
\* and of a sale the order.
Returned(c) ==
  [c EXCEPT !.pc = "done", !.res = [err |-> c.res.err, val |-> <<>>],
            !.arg = IF c.op = "sellProduct" THEN c.arg ELSE <<>>]

\* s.mtx.Unlock(), deferred or explicit (part_000 34, 109, 206; store.go 38,
\* 67, 204, 231), and the return to the caller
Unlock(p) ==
  /\ At(p, "unlock", {"addProducts", "updateProduct", "sellProduct", "deleteProducts",
                      "updateProductsSupported"})
  /\ mtx' = [mtx EXCEPT !.w = 0]
  /\ call' = [call EXCEPT ![p] = Returned(@)]
  /\ UNCHANGED <<variant, store, ret, fatal>>

\* s.mtx.RLock() (part_000 116, 129, 156, 186, 221; store.go 98, 112, 143, 177, 212)
RLock(p) ==
  /\ At(p, "rlock", {"query"})
  /\ mtx.w = 0
  /\ mtx' = [mtx EXCEPT !.r = @ \cup {p}]
  /\ call' = [call EXCEPT ![p].pc = "read"]
  /\ UNCHANGED <<variant, store, ret, fatal>>

\* deferred s.mtx.RUnlock() and the return to the caller
RUnlock(p) ==
  /\ At(p, "runlock", {"query"})
  /\ mtx' = [mtx EXCEPT !.r = @ \ {p}]
  /\ call' = [call EXCEPT ![p] = Returned(@)]
  /\ UNCHANGED <<variant, store, ret, fatal>>

\* a query is called
CallQuery(p, q) ==
  /\ CanCall(p)
  /\ call' = [call EXCEPT ![p] = Start("query", q, "rlock")]
  /\ UNCHANGED <<variant, store, ret, mtx, fatal>>

\* the body of a query, under the shared lock
Read(p) ==
  /\ At(p, "read", {"query"})
  /\ \E r \in {queryResult(call[p].arg, variant, heap, productsInStock, orders,
                           processedOrders, supportedProducts)} :
       call' = [call EXCEPT ![p] = Finish(@, r.err, r.val, "runlock")]
  /\ UNCHANGED <<variant, store, ret, mtx, fatal>>

\* addProducts / updateProduct is called: its first statement takes the lock
CallAdd(p, products) ==
  /\ CanCall(p)
  /\ variant = "A" =>
       Cardinality(issued) + PendingIDs + Len(products) <= MaxIDs
  /\ call' = [call EXCEPT ![p] =
                Start(IF variant = "A" THEN "addProducts" ELSE "updateProduct",
                      products, "lock")]
  /\ UNCHANGED <<variant, store, ret, mtx, fatal>>

\* part_000 36-70 / store.go 40-61 under the lock
AddBody(p) ==
  /\ At(p, "body", {"addProducts", "updateProduct"})
  /\ \E ids \in IF variant = "A" THEN DrawProductIDs(call[p].arg, heap, issued)
                ELSE {<<>>} :
       \E r \in {IF variant = "A"
                 THEN addProductsResult(call[p].arg, ids, heap, productsInStock,
                                        orders, processedOrders)
                 ELSE updateProductResult(call[p].arg, heap, productsInStock, orders,
                                          processedOrders, supportedProducts)} :
         /\ heap' = r.heap
         /\ productsInStock' = r.stock
         /\ issued' = IF variant = "A" /\ r.err = OK
                      THEN issued \cup Range(ids) ELSE issued
         /\ call' = [call EXCEPT ![p] = Finish(@, r.err, r.val, "unlock")]
  /\ UNCHANGED <<variant, orders, processedOrders, supportedProducts, ret, mtx, fatal>>

\* deleteProducts is called: the length check comes before the lock
\* (part_000 201-205, store.go 192-196)
CallDelete(p, productIDs) ==
  /\ CanCall(p)
  /\ call' = [call EXCEPT ![p] =
                IF Len(productIDs) = 0
                THEN Returned(Finish(Start("deleteProducts", productIDs, "done"), ErrNoIDs, <<0>>, "done"))
                ELSE Start("deleteProducts", productIDs, "lock")]
  /\ UNCHANGED <<variant, store, ret, mtx, fatal>>

\* part_000 207-215 / store.go 197-203 under the lock
DeleteBody(p) ==
  /\ At(p, "body", {"deleteProducts"})
  /\ \E r \in {deleteLoop(1, call[p].arg, productsInStock, 0)} :
       /\ productsInStock' = r.stock
       /\ call' = [call EXCEPT ![p] = Finish(@, OK, <<r.deleted>>, "unlock")]
  /\ UNCHANGED <<variant, heap, orders, processedOrders, supportedProducts, issued,
                 ret, mtx, fatal>>

\* sellProduct is called.  Variant A checks the order's own fields and then
\* walks the products, all before the lock (part_000 75-99); variant B takes
\* the lock first (store.go 66).
CallSell(p, ord) ==
  /\ CanCall(p)
  /\ ord.ptr = NewOrder => Len(orders) + PendingOrders < MaxOrdersC
  /\ call' = [call EXCEPT ![p] =
                IF variant = "B" THEN Start("sellProduct", ord, SellOrder(variant)[1])
                ELSE IF orderMissingFields(ord)
                THEN Returned(Finish(Start("sellProduct", ord, "done"), ErrOrderFields,
                                     <<zeroOrderID>>, "done"))
                ELSE [Start("sellProduct", ord, SellOrder(variant)[1]) EXCEPT !.i = 1]]
  /\ UNCHANGED <<variant, store, ret, mtx, fatal>>

\* Another goroutine is inside a critical section that writes s.products.
WriterBusy(p) ==
  \E q \in Procs \ {p} :
    /\ mtx.w = q
    /\ call[q].pc \in {"body", "apply"}
    /\ call[q].op \in {"addProducts", "sellProduct", "deleteProducts"}

\* Another goroutine is inside addProducts for the product o, writing its id.
IDWriterBusy(p, o) ==
  \E q \in Procs \ {p} :
    /\ mtx.w = q /\ call[q].pc = "body" /\ call[q].op = "addProducts"
    /\ o \in Range(call[q].arg)
    /\ addProductsCheck(call[q].arg, heap) = OK

\* What one pass of the validation loop of variant A can find (part_000
\* 81-91).  It reads s.products and the product without the lock: if it
\* overlaps a write of the product's id it may see an id that is no key.
ValidateFindings(p, o) ==
  {sellCheckOneA(o, heap, productsInStock)}
    \cup IF o # Nil /\ IDWriterBusy(p, o) THEN {ErrNotExist} ELSE {}

\* part_000 80-99: pass i of the validation loop, and after the last pass
\* the payment check
SellValidateA(p) ==
  /\ At(p, "validate", {"sellProduct"})
  /\ LET c == call[p]
         o == c.arg.products[c.i]
     IN \/ /\ \E e \in ValidateFindings(p, o) :
                 call' = [call EXCEPT ![p] =
                   IF e # OK THEN Returned(Finish(c, e, <<zeroOrderID>>, "done"))
                   ELSE IF c.i < Len(c.arg.products)
                   THEN [c EXCEPT !.i = c.i + 1, !.total = c.total + heap[o].price]
                   ELSE IF c.arg.amountPaid < c.total + heap[o].price
                   THEN Returned(Finish(c, ErrNotEnough, <<zeroOrderID>>, "done"))
                   ELSE [c EXCEPT !.pc = AfterPC(variant, "validate"), !.i = 0, !.total = 0]]
           /\ UNCHANGED fatal
        \/ \* the runtime detects the map read overlapping a map write
           /\ o # Nil /\ WriterBusy(p)
           /\ fatal' = TRUE
           /\ UNCHANGED call
  /\ UNCHANGED <<variant, store, ret, mtx>>

\* store.go 69-86: variant B validates under the lock
SellCheckB(p) ==
  /\ At(p, "check", {"sellProduct"})
  /\ \E e \in {sellCheckB(call[p].arg, heap, productsInStock, supportedProducts)} :
       call' = [call EXCEPT ![p] =
                  IF e # OK THEN Finish(@, e, <<>>, "unlock")
                  ELSE [@ EXCEPT !.pc = AfterPC(variant, "check")]]
  /\ UNCHANGED <<variant, store, ret, mtx, fatal>>

\* part_000 102-108 / store.go 88-92 under the lock: the products leave the
\* stock and the order is recorded
SellApply(p) ==
  /\ At(p, "apply", {"sellProduct"})
  /\ \E oid \in IF variant = "A" THEN FreshOrderIDs(DOMAIN processedOrders)
                ELSE {call[p].arg.id} :
       \E r \in {IF variant = "A"
                 THEN sellApplyA(call[p].arg, oid, heap, productsInStock, orders,
                                 processedOrders)
                 ELSE sellApplyB(call[p].arg, heap, productsInStock, orders,
                                 processedOrders)} :
         /\ productsInStock' = r.stock
         /\ orders' = r.orders
         /\ processedOrders' = r.processedOrders
         /\ call' = [call EXCEPT ![p] =
                       Finish([@ EXCEPT !.arg = r.orders[PtrOf(orders, call[p].arg)]],
                              r.err, r.val, "unlock")]
  /\ UNCHANGED <<variant, heap, supportedProducts, issued, ret, mtx, fatal>>

\* updateProductsSupported is called (store.go 229-231)
CallSupported(p, productType, enable) ==
  /\ CanCall(p)
  /\ variant = "B"
  /\ call' = [call EXCEPT ![p] =
                Start("updateProductsSupported", <<productType, enable>>, "lock")]
  /\ UNCHANGED <<variant, store, ret, mtx, fatal>>

\* store.go 232-238 under the lock
SupportedBody(p) ==
  /\ At(p, "body", {"updateProductsSupported"})
  /\ LET productType == call[p].arg[1]
         enable == call[p].arg[2]
     IN IF ~enable /\ productType \notin DOMAIN supportedProducts
        THEN /\ call' = [call EXCEPT ![p] = Finish(@, ErrDisable, <<>>, "unlock")]
             /\ UNCHANGED supportedProducts
        ELSE /\ supportedProducts' = MapSet(supportedProducts, productType, enable)
             /\ call' = [call EXCEPT ![p] = Finish(@, OK, <<>>, "unlock")]
  /\ UNCHANGED <<variant, heap, productsInStock, orders, processedOrders, issued,
                 ret, mtx, fatal>>

NextC ==
  \/ \E p \in Procs, products \in CProductLists : CallAdd(p, products)
  \/ \E p \in Procs, ord \in COrderInputs : CallSell(p, ord)
  \/ \E p \in Procs, productIDs \in CIDLists : CallDelete(p, productIDs)
  \/ \E p \in Procs, q \in QueryInputs : CallQuery(p, q)
  \/ \E p \in Procs, enable \in BOOLEAN : CallSupported(p, "Car", enable)
  \/ \E p \in Procs : Lock(p)
  \/ \E p \in Procs : Unlock(p)
  \/ \E p \in Procs : RLock(p)
  \/ \E p \in Procs : RUnlock(p)
  \/ \E p \in Procs : Read(p)
  \/ \E p \in Procs : AddBody(p)
  \/ \E p \in Procs : DeleteBody(p)
  \/ \E p \in Procs : SellValidateA(p)
  \/ \E p \in Procs : SellCheckB(p)
  \/ \E p \in Procs : SellApply(p)
  \/ \E p \in Procs : SupportedBody(p)

SpecC == Init /\ [][NextC]_vars

\* ------------------------------------------- calls and queries one at a time
\* The queries a caller makes and what it passes: an identity to product, a
\* type tag (or none) to availableProducts, soldProducts and inStock.  "Spare
\* Parts" is a tag no product carries (store.go 413).
Tags == Types \cup {"Spare Parts"}

QueryCalls ==
  {<<"product", id>> : id \in 0..MaxIDs}
    \cup {<<f, t>> : f \in {"availableProducts", "soldProducts"}, t \in {""} \cup Tags}
    \cup {<<"inStock", t>> : t \in Tags}
    \cup {<<"orders", "">>}

\* a query, called while no other call runs: it changes nothing
query(q) ==
  /\ \E r \in {queryResult(q, variant, heap, productsInStock, orders,
                           processedOrders, supportedProducts)} :
       ret' = [op |-> q[1], arg |-> q[2], err |-> r.err, val |-> r.val]
  /\ UNCHANGED <<variant, heap, productsInStock, orders, processedOrders,
                 supportedProducts, issued>>
  /\ UNCHANGED cvars

Query == \E q \in QueryCalls : query(q)

NextQ == Next \/ Query

SpecQ == Init /\ [][NextQ]_vars

\* ================================================================ claims
\* The outcomes the next sellProduct(ord) call can have in the current state.
SellOutcomes(ord) ==
  IF variant = "A"
  THEN {sellProductResultA(ord, oid, heap, productsInStock, orders, processedOrders) :
          oid \in DrawOrderID(ord, heap, productsInStock, processedOrders)}
  ELSE {sellProductResultB(ord, heap, productsInStock, orders, processedOrders,
                           supportedProducts)}

\* The outcomes the next add call (addProducts / updateProduct) can have.
AddOutcomes(products) ==
  IF variant = "A"
  THEN {addProductsResult(products, ids, heap, productsInStock, orders, processedOrders) :
          ids \in DrawProductIDs(products, heap, issued)}
  ELSE {updateProductResult(products, heap, productsInStock, orders, processedOrders,
                            supportedProducts)}

NoNil(products) == \A i \in 1..Len(products) : products[i] # Nil

\* An order as its reader sees it: the buyer's fields and, per product, the
\* identity, type and price.
OrderView(o, h) ==
  [id |-> o.id, name |-> o.name, address |-> o.address, amountPaid |-> o.amountPaid,
   products |-> [i \in 1..Len(o.products) |->
                   [id |-> h[o.products[i]].id,
                    productType |-> h[o.products[i]].productType,
                    price |-> h[o.products[i]].price]]]

\* A call of sellProduct / of the add operation, in whichever variant runs.
SellStep(ord) == sellProductA(ord) \/ sellProductB(ord)

AddStep(products) == addProducts(products) \/ updateProduct(products)

\* C1: a successful sellProduct removes exactly the identities of the order's
\* products from the stock (every other entry stays as it was) and adds exactly
\* one entry to the processed orders, under an identity that was not a key
\* before, holding the order with its product list.
C1_SaleRemovesSoldAddsOneOrder ==
  [][(ret'.op = "sellProduct" /\ ret'.err = OK) =>
       \A ord \in OrderInputs :
         SellStep(ord) =>
           /\ productsInStock' = MapDelete(productsInStock, IDsOf(ord.products, heap))
           /\ \E k \in (DOMAIN processedOrders') \ (DOMAIN processedOrders) :
                /\ DOMAIN processedOrders' = (DOMAIN processedOrders) \cup {k}
                /\ \A j \in DOMAIN processedOrders :
                     processedOrders'[j] = processedOrders[j]
                /\ orders'[processedOrders'[k]].products = ord.products]_vars

\* C2: a sellProduct call whose order pays less than the prices of its products
\* add up to returns an error, removes nothing from stock and records no order.
C2_UnderpaidSaleFails ==
  [][ret'.op = "sellProduct" =>
       \A ord \in OrderInputs :
         (/\ ord.ptr # Nil
          /\ NoNil(ord.products)
          /\ ord.amountPaid < totalProductCost(ord.products, heap)
          /\ SellStep(ord))
           => /\ ret'.err # OK
              /\ productsInStock' = productsInStock
              /\ processedOrders' = processedOrders]_vars

\* C3: a sellProduct call whose order lists a product that is not in stock
\* returns an error and leaves the stock and the processed orders as they
\* were, the in-stock products of the same order included.
C3_SaleOfMissingProductFails ==
  \A ord \in OrderInputs : \A r \in SellOutcomes(ord) :
    (/\ ord.ptr # Nil
     /\ \E i \in 1..Len(ord.products) :
          ord.products[i] # Nil /\ heap[ord.products[i]].id \notin DOMAIN productsInStock)
      => /\ r.err # OK
         /\ r.stock = productsInStock
         /\ r.processedOrders = processedOrders
         /\ r.orders = orders
         /\ r.heap = heap

\* C3's case: a sale was refused for a product that is not in stock while
\* other products are.
C3_Witness ==
  /\ ret.op = "sellProduct" /\ ret.err = ErrNotExist
  /\ DOMAIN productsInStock # {}

\* C4: no product of a processed order is in stock, neither the object nor
\* the identity it reports.
C4_SoldNeverInStock ==
  \A k \in DOMAIN processedOrders :
    \A i \in 1..Len(orders[processedOrders[k]].products) :
      LET o == orders[processedOrders[k]].products[i] IN
        /\ o \notin Range(productsInStock)
        /\ heap[o].id \notin DOMAIN productsInStock

\* C5: once an order is recorded under an identity, every later state holds
\* it under that identity, with the same buyer fields and the same products
\* (identities, types, prices).
C5_OrdersImmutable ==
  [][\A k \in DOMAIN processedOrders :
       /\ k \in DOMAIN processedOrders'
       /\ OrderView(orders'[processedOrders'[k]], heap')
            = OrderView(orders[processedOrders[k]], heap)]_vars

\* What the data model calls a product that lacks a required field.
LacksRequiredField(p) ==
  \/ p.price <= 0 \/ p.images = 0 \/ p.specifications = 0
  \/ p.name = "" \/ p.productType = ""
  \/ (p.kind = "car" /\ (p.make = "" \/ p.model = "" \/ p.color = ""))
  \/ (variant = "A" /\ p.description = "")
  \/ (variant = "B" /\ (p.id = zeroProductID \/ p.createdAt = "nil" \/ p.lastUpdated = "nil"))

\* C9: an add call (addProducts / updateProduct) with an empty batch, or with a
\* nil or invalid product anywhere in the batch, returns an error and inserts
\* nothing: the stock and the product objects are as before.
C9_InvalidBatchRejected ==
  \A products \in ProductLists : \A r \in AddOutcomes(products) :
    (\/ Len(products) = 0
     \/ \E i \in 1..Len(products) :
          products[i] = Nil \/ LacksRequiredField(heap[products[i]]))
      => /\ r.err # OK
         /\ r.stock = productsInStock
         /\ r.heap = heap

\* C9's case: a batch was refused for an invalid product while the stock
\* holds earlier products.
C9_Witness ==
  /\ ret.op \in {"addProducts", "updateProduct"} /\ ret.err = ErrNotValid
  /\ DOMAIN productsInStock # {}

\* C10: after a successful addProducts every product of the batch has a
\* non-zero identity, the returned identities are pairwise distinct and none
\* was in stock before, the stock has grown by the size of the batch, and
\* the i-th returned identity is the key of the i-th product, which reports
\* that identity.
C10_AddAssignsIdentities ==
  [][(ret'.op = "addProducts" /\ ret'.err = OK) =>
       \A products \in ProductLists :
         addProducts(products) =>
           /\ Len(ret'.val) = Len(products)
           /\ \A i \in 1..Len(products) : heap'[products[i]].id # zeroProductID
           /\ \A i, j \in 1..Len(ret'.val) : i # j => ret'.val[i] # ret'.val[j]
           /\ \A i \in 1..Len(ret'.val) : ret'.val[i] \notin DOMAIN productsInStock
           /\ Cardinality(DOMAIN productsInStock')
                = Cardinality(DOMAIN productsInStock) + Len(products)
           /\ \A i \in 1..Len(products) :
                /\ ret'.val[i] \in DOMAIN productsInStock'
                /\ productsInStock'[ret'.val[i]] = products[i]
                /\ heap'[products[i]].id = ret'.val[i]]_vars


\* ------------------------------------------------ claims on concurrent calls
Mutators == {"addProducts", "updateProduct", "sellProduct", "deleteProducts"}

\* The next step of goroutine p reads or writes the collections.
Accesses(p) ==
  \/ call[p].pc \in {"body", "check", "apply", "read"}
  \/ call[p].pc = "validate" /\ call[p].arg.products[call[p].i] # Nil

\* The next step of goroutine p writes the collections.
Writes(p) == call[p].pc \in {"body", "apply"} /\ call[p].op \in Mutators

\* C6: in both variants every read and write of the collections by an add,
\* sell or delete happens while the call holds the exclusive lock, every read
\* by a query while it holds the shared lock, and no access by one call
\* overlaps a write by another.
C6_AccessUnderLock ==
  \A p \in Procs :
    /\ (call[p].op \in Mutators /\ Accesses(p)) => mtx.w = p
    /\ (call[p].op = "query" /\ Accesses(p)) => (p \in mtx.r /\ mtx.w = 0)
    /\ \A q \in Procs \ {p} : ~(Accesses(p) /\ Writes(q))

\* The products an order lists and the identities they carry.
Listed(ord) == {ord.products[i] : i \in 1..Len(ord.products)} \ {Nil}

\* Goroutine p takes the step that leaves the part pc of sellProduct.
Leaves(p, pc) ==
  call[p].op = "sellProduct" /\ call[p].pc = pc /\ call'[p].pc # pc

\* C7: in the variant of store.go sellProduct validates and mutates inside
\* one critical section.  The validation runs with the lock held, changes
\* nothing, lets the call go on only if every listed product is in stock and
\* answers 'does not exist' when a listed product (the order being otherwise
\* in order) is not; the mutation runs with the lock still held, finds every
\* listed product still in stock and takes all of them out.  So of two
\* concurrent calls listing the same in-stock product the one that gets the
\* lock second finds the product gone and fails without changing the store.
C7_SellAtomicInStoreGo ==
  [][variant = "B" =>
       \A p \in Procs :
         /\ Leaves(p, "check") =>
              LET ord == call[p].arg
                  ids == IDsOf(ord.products, heap)
                  inOrder == /\ ~orderMissingFieldsB(ord)
                             /\ \A o \in Listed(ord) :
                                  ~notSupported(supportedProducts, heap[o].productType)
                             /\ NoNil(ord.products)
              IN /\ mtx.w = p /\ mtx'.w = p
                 /\ store' = store
                 /\ call'[p].pc = "apply" => ids \subseteq DOMAIN productsInStock
                 /\ (inOrder /\ ~(ids \subseteq DOMAIN productsInStock)) =>
                      (call'[p].pc = "unlock" /\ call'[p].res.err = ErrNotExist)
         /\ Leaves(p, "apply") =>
              LET ids == IDsOf(call[p].arg.products, heap)
              IN /\ mtx.w = p
                 /\ ids \subseteq DOMAIN productsInStock
                 /\ DOMAIN productsInStock' = DOMAIN productsInStock \ ids
                 /\ call'[p].res.err = OK
         /\ (Leaves(p, "unlock") /\ call[p].res.err # OK) => store' = store]_vars

\* Two sales of the same product are in flight in the variant of store.go:
\* one has sold it and still holds the lock, the other waits for the lock.
C7_Witness ==
  /\ variant = "B"
  /\ \E p \in Procs : \E q \in Procs \ {p} :
       /\ call[p].op = "sellProduct" /\ call[p].pc = "unlock" /\ call[p].res.err = OK
       /\ call[q].op = "sellProduct" /\ call[q].pc = "lock"
       /\ Listed(call[p].arg) \cap Listed(call[q].arg) # {}

\* C8: in the variant of part_000 sellProduct validates without the lock and
\* does not look at the stock again once it holds it: every call that passed
\* the validation records its order, whatever happened to the stock in
\* between.  So two concurrent sales of one product can both succeed, and so
\* can the sale of a product that was deleted in between.
C8_ValidatedSaleAlwaysRecorded ==
  [][variant = "A" =>
       \A p \in Procs :
         /\ Leaves(p, "validate") => (mtx.w # p /\ store' = store)
         /\ Leaves(p, "apply") =>
              /\ mtx.w = p
              /\ call'[p].res.err = OK
              /\ \E k \in DOMAIN processedOrders' \ DOMAIN processedOrders :
                   /\ call'[p].res.val = <<k>>
                   /\ orders'[processedOrders'[k]].products = call[p].arg.products
              /\ DOMAIN productsInStock' =
                   DOMAIN productsInStock \ IDsOf(call[p].arg.products, heap)]_vars

\* Two recorded orders hold the same product although it was added only once.
C8_Witness ==
  /\ variant = "A"
  /\ Cardinality(issued) = 1
  /\ \E k1 \in DOMAIN processedOrders, k2 \in DOMAIN processedOrders :
       /\ processedOrders[k1] # processedOrders[k2]
       /\ Listed(orders[processedOrders[k1]]) \cap Listed(orders[processedOrders[k2]]) # {}

\* C8, second case: a sale that passed the validation waits for the lock
\* while deleteProducts has just taken its product out of the stock; the sale
\* goes on to record its order (C8_ValidatedSaleAlwaysRecorded).
C8_DeletedProductOnSale ==
  /\ variant = "A"
  /\ \E p \in Procs : \E q \in Procs \ {p} :
       /\ call[p].op = "sellProduct" /\ call[p].pc = "lock"
       /\ call[q].op = "deleteProducts" /\ call[q].pc = "unlock"
       /\ call[q].res.val = <<1>>
       /\ IDsOf(call[p].arg.products, heap) = Range(call[q].arg)

\* ------------------------------------------------ deleteProducts, queries
\* The outcome of the next deleteProducts(productIDs...) call.
DeleteOutcomes(productIDs) ==
  IF variant = "A"
  THEN {deleteProductsResultA(productIDs, heap, productsInStock, orders, processedOrders)}
  ELSE {deleteProductsResultB(productIDs, heap, productsInStock, orders, processedOrders)}

\* C11: deleteProducts with a non-empty list leaves the stock without exactly
\* the listed identities that were in it (every other entry as it was),
\* returns the number of distinct listed identities that were in stock and no
\* error, and leaves the processed orders alone.
C11_DeleteRemovesListedAndCounts ==
  \A productIDs \in IDLists : \A r \in DeleteOutcomes(productIDs) :
    Len(productIDs) > 0 =>
      LET hit == Range(productIDs) \cap DOMAIN productsInStock IN
        /\ r.err = OK
        /\ r.val = <<Cardinality(hit)>>
        /\ DOMAIN r.stock = (DOMAIN productsInStock) \ hit
        /\ \A k \in DOMAIN r.stock : r.stock[k] = productsInStock[k]
        /\ r.processedOrders = processedOrders
        /\ r.orders = orders

\* C11's case: a deleteProducts call removed one product, an order is
\* recorded and another product is still in stock.
C11_Witness ==
  /\ ret.op = "deleteProducts" /\ ret.err = OK /\ ret.val = <<1>>
  /\ DOMAIN productsInStock # {}
  /\ DOMAIN processedOrders # {}

\* How often the product o occurs in a returned list.
Count(list, o) == Cardinality({x \in DOMAIN list : list[x] = o})

\* The products in stock that a query with the tag t is to return.
InStockOfType(t) ==
  {o \in Range(productsInStock) : t = "" \/ heap[o].productType = t}

\* C12: availableProducts(t) returns every in-stock product of type t (every
\* in-stock product when t is empty) exactly once and nothing else, and the
\* sum of their prices.
C12_AvailableProductsExact ==
  ret.op = "availableProducts" =>
    LET want == InStockOfType(ret.arg)
        got == ret.val[1]
    IN /\ Range(got) = want
       /\ \A o \in want : Count(got, o) = 1
       /\ ret.val[2] = SumF([o \in want |-> heap[o].price])

\* How often the processed orders list the product o.
TimesSold(o) ==
  SumF([k \in DOMAIN processedOrders |->
          Count(orders[processedOrders[k]].products, o)])

\* The products the processed orders list that a query with the tag t is to return.
SoldOfType(t) ==
  {o \in Objs : TimesSold(o) > 0 /\ (t = "" \/ heap[o].productType = t)}

\* C13: soldProducts(t) returns the products of type t (all products when t
\* is empty) that the processed orders list, one element per listing and
\* nothing else, and the sum of the prices of the returned elements.  (In the
\* variant of store.go a tag that was never registered yields the empty list
\* and the total 0 together with an error value.)
C13_SoldProductsExact ==
  ret.op = "soldProducts" =>
    LET want == SoldOfType(ret.arg)
        got == ret.val[1]
    IN /\ Range(got) = want
       /\ \A o \in want : Count(got, o) = TimesSold(o)
       /\ ret.val[2] = SumF([o \in want |-> TimesSold(o) * heap[o].price])

\* C13's case: soldProducts was asked for one type while the processed
\* orders list products of two types.
C13_Witness ==
  /\ ret.op = "soldProducts" /\ ret.arg # ""
  /\ SoldOfType(ret.arg) # {}
  /\ SoldOfType("") # SoldOfType(ret.arg)

\* C14: inStock(t) is true exactly when some product in stock has the type t.
C14_InStockIffPresent ==
  ret.op = "inStock" =>
    (ret.val[1] <=> \E o \in Range(productsInStock) : heap[o].productType = ret.arg)

\* ------------------------------------------------ supported product types
\* The type tag t is registered and its status is enabled.
TypeEnabled(t) == t \in DOMAIN supportedProducts /\ supportedProducts[t] = TRUE

\* Some product of the list has a type that is not enabled.
ListsDisabledType(products) ==
  \E i \in 1..Len(products) :
    products[i] # Nil /\ ~TypeEnabled(heap[products[i]].productType)

\* C15: in the variant of store.go, updateProduct with a batch and sellProduct
\* with an order that holds a product whose type is not enabled (never
\* registered, or disabled) return an error and leave the stock and the
\* processed orders as they were.
C15_DisabledTypeGatesAddAndSell ==
  variant = "B" =>
    /\ \A products \in ProductLists : \A r \in AddOutcomes(products) :
         ListsDisabledType(products) =>
           /\ r.err # OK
           /\ r.stock = productsInStock
           /\ r.processedOrders = processedOrders /\ r.orders = orders
    /\ \A ord \in OrderInputs : \A r \in SellOutcomes(ord) :
         (ord.ptr # Nil /\ ListsDisabledType(ord.products)) =>
           /\ r.err # OK
           /\ r.stock = productsInStock
           /\ r.processedOrders = processedOrders /\ r.orders = orders

\* C15's case: a sale was refused for a product in stock whose type had been
\* registered and was disabled afterwards.
C15_Witness ==
  /\ variant = "B"
  /\ ret.op = "sellProduct" /\ ret.err = ErrNotSupported
  /\ \E k \in DOMAIN productsInStock :
       LET t == heap[productsInStock[k]].productType
       IN t \in DOMAIN supportedProducts /\ ~supportedProducts[t]

\* C16: a tag gets registered only at the creation of the store or by an
\* enabling call, so a registered tag is one that was enabled once.
\* updateProductsSupported asked to disable a tag that is not registered
\* returns an error and leaves the supported types as they were; every other
\* call returns no error and sets that one tag to the requested status, every
\* other tag staying as it was.  Either way the stock and the processed
\* orders are unchanged.
C16_UpdateProductsSupported ==
  [][/\ \A u \in DOMAIN supportedProducts' \ DOMAIN supportedProducts :
          ret'.op = "updateProductsSupported" /\ supportedProducts'[u] = TRUE
     /\ ret'.op = "updateProductsSupported" =>
          \A t \in Types, enable \in BOOLEAN :
            updateProductsSupported(t, enable) =>
              /\ IF ~enable /\ t \notin DOMAIN supportedProducts
                 THEN ret'.err # OK /\ supportedProducts' = supportedProducts
                 ELSE /\ ret'.err = OK
                      /\ DOMAIN supportedProducts' = DOMAIN supportedProducts \cup {t}
                      /\ supportedProducts'[t] = enable
                      /\ \A u \in DOMAIN supportedProducts \ {t} :
                           supportedProducts'[u] = supportedProducts[u]
              /\ productsInStock' = productsInStock
              /\ processedOrders' = processedOrders
              /\ orders' = orders]_vars

\* C16's case: a call to disable a tag that was never registered was refused
\* while the store holds products.
C16_Witness ==
  /\ ret.op = "updateProductsSupported" /\ ret.err = ErrDisable
  /\ DOMAIN productsInStock # {}

\* The prices of the listed products, added up once per listing.
PriceSum(products, h) == SumF([i \in 1..Len(products) |-> h[products[i]].price])

\* An order with every buyer field filled in whose products are all valid and
\* found in the stock under the identity they report.
WellFormedInStock(ord) ==
  /\ ord.ptr # Nil /\ ord.name # "" /\ ord.address # ""
  /\ ord.amountPaid > 0 /\ Len(ord.products) > 0
  /\ NoNil(ord.products)
  /\ \A i \in 1..Len(ord.products) :
       /\ heap[ord.products[i]].id \in DOMAIN productsInStock
       /\ IsValid(heap[ord.products[i]])

\* C17: in part_000 a well-formed order whose products are all in stock and
\* valid is sold exactly when the amount paid is at least the sum of their
\* prices, equality included; the order then recorded lists products whose
\* prices add up to that sum.  Paying 5000000 for products priced 5000000 and
\* 14000 fails.
C17_PaidAtLeastTotalSucceeds ==
  variant = "A" =>
    \A ord \in OrderInputs :
      WellFormedInStock(ord) =>
        \A r \in SellOutcomes(ord) :
          /\ (r.err = OK) <=> (ord.amountPaid >= PriceSum(ord.products, heap))
          /\ r.err = OK =>
               /\ r.val[1] \in DOMAIN r.processedOrders
               /\ LET rec == r.orders[r.processedOrders[r.val[1]]]
                  IN /\ PriceSum(rec.products, r.heap) = PriceSum(ord.products, heap)
                     /\ rec.amountPaid = ord.amountPaid
          /\ (ord.amountPaid = 5000000 /\ PriceSum(ord.products, heap) = 5014000)
               => r.err # OK

\* C17's case: part_000 recorded an order that paid 5014000 for two products
\* priced 5000000 and 14000.
C17_Witness ==
  /\ variant = "A"
  /\ ret.op = "sellProduct" /\ ret.err = OK
  /\ ret.val[1] \in DOMAIN processedOrders
  /\ LET rec == orders[processedOrders[ret.val[1]]]
     IN /\ rec.amountPaid = 5014000
        /\ Len(rec.products) = 2
        /\ {heap[rec.products[i]].price : i \in 1..2} = {5000000, 14000}

\* ------------------------------------------- goroutines that add and sell
\* An order that is null, lacks the buyer's name or address, pays nothing,
\* lists no product or lists a null product.
Malformed(ord) ==
  \/ ord.ptr = Nil
  \/ ord.name = "" \/ ord.address = "" \/ ord.amountPaid <= 0
  \/ ord.products = <<>>
  \/ \E i \in 1..Len(ord.products) : ord.products[i] = Nil

\* The orders the selling goroutines pass in: the complete orders of
\* COrderInputs and, for each complete order, one order per way of being
\* malformed.
MOrderInputs ==
  COrderInputs
    \cup UNION {{[g EXCEPT !.name = ""], [g EXCEPT !.address = ""],
                 [g EXCEPT !.amountPaid = 0], [g EXCEPT !.products = <<>>],
                 [g EXCEPT !.products = <<Nil>>],
                 [g EXCEPT !.products = <<Head(g.products), Nil>>]} :
                  g \in {c \in COrderInputs : c.ptr # Nil /\ Len(c.products) = 1}}

NextM ==
  \/ \E p \in Procs, products \in CProductLists \ {<<>>} : CallAdd(p, products)
  \/ \E p \in Procs, ord \in MOrderInputs : CallSell(p, ord)
  \/ \E p \in Procs : Lock(p)
  \/ \E p \in Procs : Unlock(p)
  \/ \E p \in Procs : AddBody(p)
  \/ \E p \in Procs : SellValidateA(p)
  \/ \E p \in Procs : SellCheckB(p)
  \/ \E p \in Procs : SellApply(p)

SpecM == Init /\ [][NextM]_vars

\* C18: sellProduct given an order that is null, has an empty buyer name, an
\* empty address, a non-positive amount paid, an empty product list or a null
\* product returns an error and leaves the stock and the processed orders as
\* they were; the call never reaches the part that records the sale, none of
\* its steps changes the two collections, and when it has returned it does
\* not hold the lock.
C18_MalformedOrderRejected ==
  /\ [](\A ord \in OrderInputs \cup MOrderInputs :
          Malformed(ord) =>
            \A r \in SellOutcomes(ord) :
              /\ r.err # OK
              /\ r.stock = productsInStock
              /\ r.processedOrders = processedOrders)
  /\ [](\A p \in Procs :
          (call[p].op = "sellProduct" /\ Malformed(call[p].arg)) =>
            /\ call[p].pc # "apply"
            /\ call[p].pc = "done" =>
                 /\ call[p].res.err # OK
                 /\ mtx.w # p /\ p \notin mtx.r)
  /\ [][\A p \in Procs :
          (/\ call'[p] # call[p]
           /\ call'[p].op = "sellProduct"
           /\ Malformed(call'[p].arg))
            => /\ productsInStock' = productsInStock
               /\ processedOrders' = processedOrders]_vars

\* C18's case: a sale of an order with a null product has returned its error
\* in store.go, where the check runs under the lock, the stock holds a
\* product, and another goroutine holds the lock.
C18_Witness ==
  \E p \in Procs : \E q \in Procs \ {p} :
    /\ variant = "B"
    /\ call[p].op = "sellProduct" /\ call[p].pc = "done"
    /\ call[p].arg.ptr # Nil
    /\ \E i \in 1..Len(call[p].arg.products) : call[p].arg.products[i] = Nil
    /\ call[p].res.err = ErrInvalidProduct
    /\ DOMAIN productsInStock # {}
    /\ mtx.w = q

\* C19: in part_000 every entry of the stock is stored under the identity
\* its product reports, and no product is stored under two keys.
C19_StockKeyedByReportedID ==
  variant = "A" =>
    /\ \A k \in DOMAIN productsInStock : heap[productsInStock[k]].id = k
    /\ \A k, j \in DOMAIN productsInStock :
         productsInStock[k] = productsInStock[j] => k = j

\* C20: the list soldProducts("") returns holds no product twice: no two of
\* its elements are the same product or report the same identity.
C20_SoldAtMostOnce ==
  (ret.op = "soldProducts" /\ ret.arg = "") =>
    LET got == ret.val[1]
    IN \A e1, e2 \in DOMAIN got :
         e1 # e2 => /\ got[e1] # got[e2]
                    /\ heap[got[e1]].id # heap[got[e2]].id

\* ------------------------------------- a sale of a copy of a stocked product
\* A Product in an order is whatever value the caller passes.  The caller can
\* pass a product value of its own that reports the identity of a product in
\* stock and another price (c := *p; c.price = price): the model builds it in
\* the place of the last of the caller's objects.
CopySlot == NObj + Len(Defects("A"))

CopyOf(h, o, price) == [h EXCEPT ![CopySlot] = [h[o] EXCEPT !.price = price]]

\* The orders that list such a copy, alone or next to another product.
CopyOrders ==
  {[ptr |-> NewOrder, id |-> zeroOrderID, name |-> "Philemon", amountPaid |-> a,
    address |-> "Banana Island, Lagos", products |-> ps] :
     a \in AmountsPaid \ {0},
     ps \in {<<CopySlot>>} \cup {<<CopySlot, x>> : x \in Objs}}

\* part_000 74-112 called with an order listing a copy of the stocked
\* product o: the same sellProduct, run on the heap that holds the copy.  The
\* copy stays reachable only if the order is recorded.
sellCopy(o, price, ord) ==
  /\ variant = "A"
  /\ o \in Range(productsInStock)
  /\ CopySlot \notin Range(productsInStock)
  /\ \A k \in 1..Len(orders) : CopySlot \notin Range(orders[k].products)
  /\ LET h2 == CopyOf(heap, o, price)
     IN \E oid \in DrawOrderID(ord, h2, productsInStock, processedOrders) :
          \E r \in {sellProductResultA(ord, oid, h2, productsInStock,
                                      orders, processedOrders)} :
            /\ CanRecord(ord, r.err, orders, MaxOrders)
            /\ heap' = IF r.err = OK THEN r.heap ELSE heap
            /\ productsInStock' = r.stock
            /\ orders' = r.orders
            /\ processedOrders' = r.processedOrders
            /\ ret' = Return("sellProduct", r.err, r.val)
  /\ UNCHANGED <<variant, supportedProducts, issued>>
  /\ UNCHANGED cvars

SellCopy ==
  \E o \in Objs, price \in {14000, 5000000}, ord \in CopyOrders : sellCopy(o, price, ord)

NextF == Next \/ SellCopy

SpecF == Init /\ [][NextF]_vars

\* The prices of the records the stock holds under the identities the
\* products of the order report, added up once per listing.
StockPriceSum(ord, h) ==
  LET found == {i \in 1..Len(ord.products) :
                  /\ ord.products[i] # Nil
                  /\ h[ord.products[i]].id \in DOMAIN productsInStock}
  IN SumF([i \in found |-> heap[productsInStock[h[ord.products[i]].id]].price])

\* What C21 asks of a sellProduct call with the order ord, whose products
\* are the objects of the heap h.
CheckedAgainstStock(ord, h) ==
  /\ StockPriceSum(ord, h) > ord.amountPaid => ret'.err # OK
  /\ ret'.err = OK =>
       \A i \in 1..Len(ord.products) :
         LET rec == heap'[ord.products[i]]
             held == heap[productsInStock[h[ord.products[i]].id]]
         IN rec.price = held.price /\ rec.productType = held.productType

\* C21: in part_000 a sale fails if the prices of the in-stock records under
\* the identities the order references add up to more than the amount paid,
\* whatever price the order's own product values report, and after a
\* successful sale every product recorded in the order has the price and the
\* type of the in-stock record that was removed for it.
C21_SaleCheckedAgainstStock ==
  [][(variant = "A" /\ ret'.op = "sellProduct") =>
       /\ \A ord \in OrderInputs :
            sellProductA(ord) => CheckedAgainstStock(ord, heap)
       /\ \A o \in Objs, price \in {14000, 5000000}, ord \in CopyOrders :
            sellCopy(o, price, ord) =>
              CheckedAgainstStock(ord, CopyOf(heap, o, price))]_vars

\* The totals orders() and soldProducts("") report in the current state.
TotalPaid == ordersResult(orders, processedOrders).val[2]

TotalSold ==
  soldProductsResult(variant, "", heap, orders, processedOrders, supportedProducts).val[2]

\* C22: in part_000 the total amount paid that orders() reports is at least
\* the total price that soldProducts("") reports.
C22_PaidCoversSold == variant = "A" => TotalPaid >= TotalSold

\* C22's case: part_000 has processed two orders for products with a price.
C22_Witness ==
  /\ variant = "A"
  /\ Cardinality(DOMAIN processedOrders) = 2
  /\ TotalSold > 0

\* ------------------------------------------------------ fair scheduling
\* A goroutine that can run its next statement does so (the Go scheduler is
\* preemptive), and one that waits for the mutex gets it if it is free again
\* and again (sync.Mutex hands the lock to a starving waiter, and a waiting
\* writer of sync.RWMutex holds back new readers).  Callers need not call.
Fairness ==
  \A p \in Procs :
    /\ WF_vars(Unlock(p) \/ RUnlock(p) \/ Read(p) \/ AddBody(p) \/ DeleteBody(p)
                 \/ SellValidateA(p) \/ SellCheckB(p) \/ SellApply(p)
                 \/ SupportedBody(p))
    /\ SF_vars(Lock(p))
    /\ SF_vars(RLock(p))

SpecCF == SpecC /\ Fairness

\* The goroutines between taking and releasing the exclusive lock, and those
\* between taking and releasing the shared lock.
InWriteSection(p) == call[p].pc \in {"body", "check", "apply", "unlock"}

InReadSection(p) == call[p].pc \in {"read", "runlock"}

\* The lock is held by exactly the goroutines inside such a section: a call
\* that has returned holds nothing, and none waits for a lock it holds.
LockHeldInSectionOnly ==
  /\ \A p \in Procs : (mtx.w = p) <=> InWriteSection(p)
  /\ mtx.r = {p \in Procs : InReadSection(p)}

\* When no call is in progress the lock is free.
LockFreeWhenIdle ==
  (\A p \in Procs : ~InCall(call[p])) => (mtx.w = 0 /\ mtx.r = {})

\* C23: every operation releases the lock it took on every return path: the
\* lock is free whenever no operation is in progress, no operation takes the
\* lock while it holds it, and under fair scheduling every call that was
\* made completes.
C23_LockReleasedCallsComplete ==
  /\ [](LockFreeWhenIdle /\ LockHeldInSectionOnly)
  /\ \A p \in Procs : InCall(call[p]) ~> ~InCall(call[p])
====
